---- MODULE Spec2Model ----
(***************************************************************************)
(* Order Item Breakdown page (OrderItemBreakdown.jsx): the page's item     *)
(* collection, the refund confirmation dialog (ConfirmRefundModal) and the *)
(* refund submissions in flight.  Money is counted in whole units.         *)
(***************************************************************************)
EXTENDS Integers, Sequences, FiniteSets, TLC

\* ------------------------------------------------------------------ bounds
MaxInput == 2      \* largest number typed into an input of the dialog
MaxCalls == 2      \* refund-service calls (or direct applies) per behaviour
MaxTax == 2        \* largest tax of an item of a source other than the mock

\* ------------------------------------------------------- program constants
NumItems == 3      \* items the mocked item source resolves to
ErrNone == ""
ErrNonPositive == "Enter amount greater than $0.00"
ErrExceeds == "Exceeds refundable amount"
ErrFailed == "Failed to issue refund. Please try again."

NoToast == -1
NullItem == [id |-> "null"]
NoFeeEdits == [t \in {} |-> 0]

Max(a, b) == IF a >= b THEN a ELSE b
Min(a, b) == IF a <= b THEN a ELSE b

VARIABLES
    items,         \* useState([]) of OrderItemBreakdown
    fetched,       \* fetchOrderItemsMock().then(...) has run
    modalItem,     \* useState(null)
    modalOpen,     \* useState(false)
    toastMsg,      \* amount shown by the toast, NoToast when empty
    refundAmount,  \* ConfirmRefundModal useState(0)
    feeEdits,      \* ConfirmRefundModal useState({})
    submitting,    \* ConfirmRefundModal useState(false)
    error,         \* ConfirmRefundModal useState("")
    instance,      \* identity of the mounted ConfirmRefundModal, 0 when none
    pending,       \* issueRefundMock promises not yet settled
    nCalls,        \* number of issueRefundMock calls made so far
    approvedFees   \* per item and fee type: sum over the approved payloads

vars == <<items, fetched, modalItem, modalOpen, toastMsg,
          refundAmount, feeEdits, submitting, error, instance, pending,
          nCalls, approvedFees>>

pageVars == <<items, fetched, modalItem, modalOpen, toastMsg>>
dialogVars == <<refundAmount, feeEdits, submitting, error, instance>>

\* ------------------------------------------------------------- item source
ItemIds == <<"itm_1", "itm_2", "itm_3">>
FeeTypes == {"Processing fee", "Tax"}

\* One order item of the mocked item source, in small whole units: nothing
\* refunded yet, a non-refundable fee (the mock's processing and convenience
\* fees have this shape: default 0, maxRefund 0) and a tax that is refundable
\* in full.
MockItem(i) ==
    [id |-> ItemIds[i],
     originalAmount |-> i,
     amount |-> i,
     refundedAmount |-> 0,
     fees |-> << [type |-> "Processing fee", original |-> 1,
                  refundableDefault |-> 0, maxRefund |-> 0],
                 [type |-> "Tax", original |-> 1,
                  refundableDefault |-> 1, maxRefund |-> 1] >>]

fetchOrderItemsMock == [i \in 1..NumItems |-> MockItem(i)]

\* ------------------------------------------------------- ConfirmRefundModal
RECURSIVE feeCapOf(_)
feeCapOf(fs) ==
    IF fs = <<>> THEN 0 ELSE feeCapOf(SubSeq(fs, 1, Len(fs) - 1)) + fs[Len(fs)].maxRefund

\* maxRefundable without the clamp of the base at 0
maxRefundableUnclamped(item) ==
    IF item = NullItem THEN 0
    ELSE (item.amount - item.refundedAmount) + feeCapOf(item.fees)

maxRefundableOf(item) ==
    IF item = NullItem THEN 0
    ELSE Max(item.amount - item.refundedAmount, 0) + feeCapOf(item.fees)

maxRefundable == maxRefundableOf(modalItem)

RECURSIVE SumValues(_, _)
SumValues(f, S) ==
    IF S = {} THEN 0
    ELSE LET t == CHOOSE x \in S : TRUE IN f[t] + SumValues(f, S \ {t})

totalRequestedRefundOf(amt, edits) == amt + SumValues(edits, DOMAIN edits)

totalRequestedRefund == totalRequestedRefundOf(refundAmount, feeEdits)

\* the validation effect that lets a total of 0 pass
validationErrorZeroPasses(total, cap) ==
    IF total < 0 THEN ErrNonPositive
    ELSE IF total > cap THEN ErrExceeds
    ELSE ErrNone

\* the validation effect without its check against the cap
validationErrorNoCap(total, cap) ==
    IF total <= 0 THEN ErrNonPositive ELSE ErrNone

\* the validation effect: the message it leaves in error
validationError(total, cap) ==
    IF total <= 0 THEN ErrNonPositive
    ELSE IF total > cap THEN ErrExceeds
    ELSE ErrNone

feeDefault(f) ==
    Min(f.refundableDefault,
        IF f.maxRefund # 0 THEN f.maxRefund ELSE f.refundableDefault)

feeDefaults(item) ==
    [t \in {item.fees[k].type : k \in 1..Len(item.fees)} |->
        LET k == CHOOSE j \in 1..Len(item.fees) : item.fees[j].type = t
        IN feeDefault(item.fees[k])]

Init ==
    /\ items = <<>>
    /\ fetched = FALSE
    /\ modalItem = NullItem
    /\ modalOpen = FALSE
    /\ toastMsg = NoToast
    /\ refundAmount = 0
    /\ feeEdits = NoFeeEdits
    /\ submitting = FALSE
    /\ error = ErrNone
    /\ instance = 0
    /\ pending = {}
    /\ nCalls = 0
    /\ approvedFees = [i \in 1..NumItems |-> [t \in FeeTypes |-> 0]]

fetchResolved ==
    /\ ~fetched
    /\ fetched' = TRUE
    /\ items' = fetchOrderItemsMock
    /\ UNCHANGED <<modalItem, modalOpen, toastMsg, dialogVars,
                   pending, nCalls, approvedFees>>

\* a ConfirmRefundModal is mounted (modalOpen && <ConfirmRefundModal .../>):
\* its state starts from the useState values, then the two effects run
freshInstance == CHOOSE n \in 1..(MaxCalls + 1) : \A r \in pending : r.inst # n

mountModal(item) ==
    /\ instance' = freshInstance
    /\ refundAmount' = item.amount - item.refundedAmount
    /\ feeEdits' = feeDefaults(item)
    /\ submitting' = FALSE
    /\ error' = validationError(
                    totalRequestedRefundOf(item.amount - item.refundedAmount,
                                           feeDefaults(item)),
                    maxRefundableOf(item))

unmountModal ==
    /\ instance' = 0
    /\ refundAmount' = 0
    /\ feeEdits' = NoFeeEdits
    /\ submitting' = FALSE
    /\ error' = ErrNone

\* Row "Refund" / "Edit Fees" / bulk "Refund": the rows are reachable only
\* while no overlay covers the page
openRefundModal(i) ==
    /\ fetched
    /\ ~modalOpen
    /\ modalItem' = items[i]
    /\ modalOpen' = TRUE
    /\ mountModal(items[i])
    /\ UNCHANGED <<items, fetched, toastMsg, pending, nCalls,
                   approvedFees>>

closeRefundModal ==
    /\ modalOpen' = FALSE
    /\ modalItem' = NullItem
    /\ unmountModal

\* the Cancel button, disabled while submitting
cancelClick ==
    /\ modalOpen
    /\ ~submitting
    /\ closeRefundModal
    /\ UNCHANGED <<items, fetched, toastMsg, pending, nCalls,
                   approvedFees>>

\* the x button and a click on the overlay, never disabled
closeClick ==
    /\ modalOpen
    /\ closeRefundModal
    /\ UNCHANGED <<items, fetched, toastMsg, pending, nCalls,
                   approvedFees>>

\* the validation effect reruns when totalRequestedRefund changed
revalidated(amt, edits) ==
    IF totalRequestedRefundOf(amt, edits) # totalRequestedRefund
    THEN validationError(totalRequestedRefundOf(amt, edits), maxRefundable)
    ELSE error

\* onChange of the refund amount input
refundAmountChange(v) ==
    /\ modalOpen
    /\ refundAmount' = Max(0, v)
    /\ error' = revalidated(Max(0, v), feeEdits)
    /\ UNCHANGED <<pageVars, feeEdits, submitting, instance, pending, nCalls,
                   approvedFees>>

clampFee(v, f) ==
    IF v < 0 THEN 0 ELSE Min(v, Min(f.maxRefund, f.original))

handleFeeChange(k, v) ==
    /\ modalOpen
    /\ k \in 1..Len(modalItem.fees)
    /\ LET f == modalItem.fees[k]
           edits == [feeEdits EXCEPT ![f.type] = clampFee(v, f)]
       IN /\ feeEdits' = edits
          /\ error' = revalidated(refundAmount, edits)
    /\ UNCHANGED <<pageVars, refundAmount, submitting, instance, pending,
                   nCalls, approvedFees>>

\* the early return of handleConfirm
confirmReturnsEarly == error # ErrNone \/ submitting

\* a dropped update of the submitting flag
setSubmittingLost(b) == submitting' = submitting

setSubmitting(b) == submitting' = b

\* disabled= of the Confirm Refund button
confirmDisabled == error # ErrNone \/ submitting \/ totalRequestedRefund <= 0

\* the payload handleConfirm builds from the dialog's state
buildPayload ==
    [items |-> << [id |-> modalItem.id,
                   amount |-> refundAmount,
                   feeRefunds |-> [k \in 1..Len(modalItem.fees) |->
                       [type |-> modalItem.fees[k].type,
                        amount |-> feeEdits[modalItem.fees[k].type]]]] >>]

\* handleConfirm up to its await: the call is in flight, with the onConfirm
\* (applyRefund) of this render, which reads the items of this render
handleConfirm ==
    /\ modalOpen
    /\ ~confirmDisabled
    /\ ~confirmReturnsEarly
    /\ nCalls < MaxCalls
    /\ setSubmitting(TRUE)
    /\ nCalls' = nCalls + 1
    /\ pending' = pending \cup {[call |-> nCalls + 1,
                                 inst |-> instance,
                                 payload |-> buildPayload,
                                 items |-> items]}
    /\ UNCHANGED <<pageVars, refundAmount, feeEdits, error, instance,
                   approvedFees>>

\* ------------------------------------------------------------- applyRefund
RECURSIVE feeSumOf(_)
feeSumOf(frs) ==
    IF frs = <<>> THEN 0
    ELSE feeSumOf(SubSeq(frs, 1, Len(frs) - 1)) + frs[Len(frs)].amount

\* findIndex whose "none" is taken for the first position
findIndexFirst(upd, id) ==
    IF \E i \in 1..Len(upd) : upd[i].id = id
    THEN CHOOSE i \in 1..Len(upd) :
            upd[i].id = id /\ \A j \in 1..(i - 1) : upd[j].id # id
    ELSE 1

\* upd.findIndex((it) => it.id === p.id), 0 when there is none
findIndex(upd, id) ==
    IF \E i \in 1..Len(upd) : upd[i].id = id
    THEN CHOOSE i \in 1..Len(upd) :
            upd[i].id = id /\ \A j \in 1..(i - 1) : upd[j].id # id
    ELSE 0

\* applyRefund's update with the fee refunds left out of refundedAmount
applyEntryNoFees(upd, p) ==
    LET idx == findIndex(upd, p.id)
        totalRefund == p.amount + feeSumOf(p.feeRefunds)
    IN IF idx >= 1
       THEN [upd EXCEPT ![idx] =
                [@ EXCEPT !.refundedAmount = @ + p.amount,
                          !.amount = Max(@ - totalRefund, 0)]]
       ELSE upd

\* applyRefund's update without the clamp of amount at 0
applyEntryUnclamped(upd, p) ==
    LET idx == findIndex(upd, p.id)
        totalRefund == p.amount + feeSumOf(p.feeRefunds)
    IN IF idx >= 1
       THEN [upd EXCEPT ![idx] =
                [@ EXCEPT !.refundedAmount = @ + totalRefund,
                          !.amount = @ - totalRefund]]
       ELSE upd

applyEntry(upd, p) ==
    LET idx == findIndex(upd, p.id)
        totalRefund == p.amount + feeSumOf(p.feeRefunds)
    IN IF idx >= 1
       THEN [upd EXCEPT ![idx] =
                [@ EXCEPT !.refundedAmount = @ + totalRefund,
                          !.amount = Max(@ - totalRefund, 0)]]
       ELSE upd

\* payload.items.forEach(...) over the copy of the items
RECURSIVE applyEntries(_, _)
applyEntries(upd, ps) ==
    IF ps = <<>> THEN upd ELSE applyEntries(applyEntry(upd, ps[1]), Tail(ps))

RECURSIVE toastAmount(_)
toastAmount(ps) ==
    IF ps = <<>> THEN 0 ELSE ps[1].amount + toastAmount(Tail(ps))

\* applyRefund(payload) of the render whose items are its
applyRefund(its, payload) ==
    /\ items' = applyEntries(its, payload.items)
    /\ toastMsg' = toastAmount(payload.items)
    /\ closeRefundModal

\* what the approved payloads have refunded of each fee
RECURSIVE approvedOf(_, _, _)
approvedOf(ps, id, t) ==
    IF ps = <<>> THEN 0
    ELSE approvedOf(Tail(ps), id, t)
         + (IF ps[1].id = id
            THEN feeSumOf(SelectSeq(ps[1].feeRefunds, LAMBDA fr : fr.type = t))
            ELSE 0)

approve(payload) ==
    [i \in 1..NumItems |-> [t \in FeeTypes |->
        approvedFees[i][t] + approvedOf(payload.items, ItemIds[i], t)]]

\* ---------------------------------------------------- refund service replies
\* resolves { ok: true }: setSubmitting(false), onConfirm(payload)
resolveOk(r) ==
    /\ r \in pending
    /\ pending' = pending \ {r}
    /\ applyRefund(r.items, r.payload)
    /\ approvedFees' = approve(r.payload)
    /\ UNCHANGED <<fetched, nCalls>>

\* resolves without ok: setSubmitting(false), setError(...) on the instance
\* that called, which may be unmounted by now
resolveNotOk(r) ==
    /\ r \in pending
    /\ pending' = pending \ {r}
    /\ IF r.inst = instance
       THEN setSubmitting(FALSE) /\ error' = ErrFailed
       ELSE UNCHANGED <<submitting, error>>
    /\ UNCHANGED <<pageVars, refundAmount, feeEdits, instance, nCalls,
                   approvedFees>>

\* rejects: the await throws, nothing after it runs
reject(r) ==
    /\ r \in pending
    /\ pending' = pending \ {r}
    /\ UNCHANGED <<pageVars, dialogVars, nCalls, approvedFees>>

\* setTimeout(() => setToastMsg(""), 3000): timers fire in the order they
\* were set, so while a toast is shown the timer set with it is still to
\* fire; a timer that fires on an empty toast changes nothing
toastTimeout ==
    /\ toastMsg # NoToast
    /\ toastMsg' = NoToast
    /\ UNCHANGED <<items, fetched, modalItem, modalOpen, dialogVars, pending,
                   nCalls, approvedFees>>

Next ==
    \/ fetchResolved
    \/ \E i \in 1..NumItems : openRefundModal(i)
    \/ cancelClick
    \/ closeClick
    \/ \E v \in -1..MaxInput : refundAmountChange(v)
    \/ \E k \in 1..2, v \in -1..MaxInput : handleFeeChange(k, v)
    \/ handleConfirm
    \/ \E r \in pending : resolveOk(r)
    \/ \E r \in pending : resolveNotOk(r)
    \/ \E r \in pending : reject(r)
    \/ toastTimeout

Spec == Init /\ [][Next]_vars

\* ------------------------------------------- applyRefund as a function
\* applyRefund on the fetched items and what earlier applies made of them,
\* for every payload of the payload's shape, an unknown item id included
UnknownId == "itm_0"

Entries ==
    [id : {ItemIds[i] : i \in 1..NumItems} \cup {UnknownId},
     amount : 0..MaxInput,
     feeRefunds : {<< [type |-> "Processing fee", amount |-> a],
                      [type |-> "Tax", amount |-> b] >> : a \in 0..1, b \in 0..1}]

Payloads == {[items |-> <<e>>] : e \in Entries}

InitApply ==
    /\ items = fetchOrderItemsMock
    /\ fetched = TRUE
    /\ modalItem = NullItem
    /\ modalOpen = FALSE
    /\ toastMsg = NoToast
    /\ refundAmount = 0
    /\ feeEdits = NoFeeEdits
    /\ submitting = FALSE
    /\ error = ErrNone
    /\ instance = 0
    /\ pending = {}
    /\ nCalls = 0
    /\ approvedFees = [i \in 1..NumItems |-> [t \in FeeTypes |-> 0]]

\* the refund service is about to approve payload p for the applyRefund of
\* the current render; one apply at a time
approved(p) ==
    /\ pending = {}
    /\ nCalls < MaxCalls
    /\ nCalls' = nCalls + 1
    /\ pending' = pending \cup {[call |-> nCalls + 1, inst |-> 0,
                                 payload |-> p, items |-> items]}
    /\ UNCHANGED <<pageVars, dialogVars, approvedFees>>

NextApply ==
    \/ \E p \in Payloads : approved(p)
    \/ \E r \in pending : resolveOk(r)
    \/ toastTimeout

SpecApply == InitApply /\ [][NextApply]_vars

\* ------------------------------------------- any conforming item source
\* The page on an item source other than the mock: one item whose fees use
\* what the data model allows, a suggested default above a maxRefund of 0
\* (pd) and a tax of up to MaxTax units that is refundable in full.
ConformingItem(i, pd, tx) ==
    [MockItem(i) EXCEPT !.fees =
        << [type |-> "Processing fee", original |-> 1,
            refundableDefault |-> pd, maxRefund |-> 0],
           [type |-> "Tax", original |-> tx,
            refundableDefault |-> tx, maxRefund |-> tx] >>]

ItemSources ==
    {<< ConformingItem(1, pd, tx) >> : pd \in 0..1, tx \in 1..MaxTax}

fetchResolvedFrom(data) ==
    /\ ~fetched
    /\ fetched' = TRUE
    /\ items' = data
    /\ UNCHANGED <<modalItem, modalOpen, toastMsg, dialogVars,
                   pending, nCalls, approvedFees>>

NextAnySource ==
    \/ \E data \in ItemSources : fetchResolvedFrom(data)
    \/ \E i \in 1..Len(items) : openRefundModal(i)
    \/ cancelClick
    \/ closeClick
    \/ \E v \in -1..MaxInput : refundAmountChange(v)
    \/ \E k \in 1..2, v \in -1..MaxInput : handleFeeChange(k, v)
    \/ handleConfirm
    \/ \E r \in pending : resolveOk(r)
    \/ \E r \in pending : resolveNotOk(r)
    \/ \E r \in pending : reject(r)
    \/ toastTimeout

SpecAnySource == Init /\ [][NextAnySource]_vars

\* ================================================================== claims
\* the quantities of the claims, written out from their statements
RECURSIVE SumMaxRefund(_)
SumMaxRefund(fs) ==
    IF fs = <<>> THEN 0 ELSE fs[1].maxRefund + SumMaxRefund(Tail(fs))

RefundableCap(item) ==
    Max(item.amount - item.refundedAmount, 0) + SumMaxRefund(item.fees)

RECURSIVE SumFeeRefunds(_)
SumFeeRefunds(frs) ==
    IF frs = <<>> THEN 0 ELSE frs[1].amount + SumFeeRefunds(Tail(frs))

EntryTotal(e) == e.amount + SumFeeRefunds(e.feeRefunds)

Positions(its, id) == {i \in 1..Len(its) : its[i].id = id}

\* C1 (as stated): every item satisfies
\* originalAmount = amount + refundedAmount after every applied refund.
C1_OriginalIsAmountPlusRefunded ==
    \A i \in 1..Len(items) :
        items[i].originalAmount = items[i].amount + items[i].refundedAmount

\* C1 (amended): every item satisfies originalAmount = amount + refundedAmount
\* as long as its amount is above 0; once a refund has brought the amount to
\* 0, refundedAmount is at least originalAmount (applyRefund clamps the
\* amount at 0 and still adds the whole refund to refundedAmount).
C1_AmountPlusRefundedCoversOriginal ==
    \A i \in 1..Len(items) :
        /\ items[i].amount >= 0
        /\ items[i].amount > 0 =>
              items[i].originalAmount = items[i].amount + items[i].refundedAmount
        /\ items[i].amount = 0 =>
              items[i].refundedAmount >= items[i].originalAmount

C1_Witness ==
    \E i \in 1..Len(items) :
        /\ items[i].amount = 0
        /\ items[i].refundedAmount > items[i].originalAmount

\* C2: the refundedAmount of an item never decreases from one state of the
\* page's item collection to the next.
C2_RefundedNeverDecreases ==
    [][\A i \in 1..Len(items) :
          items'[i].refundedAmount >= items[i].refundedAmount]_vars

\* C3: every call of the refund service made by handleConfirm carries a
\* payload whose total is above 0 and at most the maxRefundable of the item
\* the dialog shows.
C3_CallsCarryValidTotals ==
    [][\A r \in pending' \ pending :
          /\ Len(r.payload.items) = 1
          /\ r.payload.items[1].id = modalItem.id
          /\ 0 < EntryTotal(r.payload.items[1])
          /\ EntryTotal(r.payload.items[1]) <= RefundableCap(modalItem)]_vars

C3_Witness ==
    \E r \in pending :
        /\ r.inst = instance
        /\ EntryTotal(r.payload.items[1]) = RefundableCap(modalItem)

\* C4: after the refund service failed (resolved without ok, or rejected)
\* the dialog is open with submitting false, and a confirm on amounts that
\* are still valid is accepted: so submitting is true only while a call of
\* this dialog is pending, and a dialog that shows the failure message over
\* valid amounts accepts a confirm.
C4_FailureLeavesDialogRetryable ==
    /\ (modalOpen /\ submitting) => \E r \in pending : r.inst = instance
    /\ ( /\ modalOpen
         /\ error = ErrFailed
         /\ ~submitting
         /\ 0 < totalRequestedRefund
         /\ totalRequestedRefund <= RefundableCap(modalItem) )
       => (~confirmDisabled /\ ~confirmReturnsEarly)

\* C5: for every fee of every item, what the approved payloads have refunded
\* of that fee in total never exceeds the fee's maxRefund.
C5_FeeRefundsWithinMaxRefund ==
    \A i \in 1..Len(items) : \A k \in 1..Len(items[i].fees) :
        approvedFees[i][items[i].fees[k].type] <= items[i].fees[k].maxRefund

\* C6: maxRefundable(item) is max(amount - refundedAmount, 0) plus the sum of
\* the fees' maxRefund, for the item of the dialog and for every item of the
\* page; for the item of the spec's example, in quarters of a dollar,
\* 300 + 23 = 323.
C6_MaxRefundableFormula ==
    /\ modalOpen => maxRefundable = RefundableCap(modalItem)
    /\ \A i \in 1..Len(items) : maxRefundableOf(items[i]) = RefundableCap(items[i])
    /\ maxRefundableOf(
          [id |-> "itm_1", originalAmount |-> 300, amount |-> 300,
           refundedAmount |-> 0,
           fees |-> << [type |-> "Processing fee", original |-> 10,
                        refundableDefault |-> 0, maxRefund |-> 0],
                       [type |-> "Convenience fee", original |-> 4,
                        refundableDefault |-> 0, maxRefund |-> 0],
                       [type |-> "Tax", original |-> 23,
                        refundableDefault |-> 23, maxRefund |-> 23] >>]) = 323

C6_Witness ==
    /\ modalOpen
    /\ modalItem.refundedAmount > modalItem.amount
    /\ maxRefundable = 1

\* C7: whenever the validation has run (the dialog was opened, or the total
\* changed), error is the non-positive message when total <= 0, the
\* exceeds message when total > maxRefundable(item), and empty otherwise.
C7_ValidationOutcome ==
    [][(modalOpen' /\ (~modalOpen \/ totalRequestedRefund' # totalRequestedRefund))
          => error' = (IF totalRequestedRefund' <= 0 THEN ErrNonPositive
                       ELSE IF totalRequestedRefund' > RefundableCap(modalItem')
                            THEN ErrExceeds
                            ELSE ErrNone)]_vars

C7_Witness == modalOpen /\ error = ErrExceeds /\ refundAmount > 0

\* C8: applyRefund sets the refundedAmount of the matched item to its value
\* in the collection it read plus totalRefund and its amount to
\* max(amount - totalRefund, 0); applied again to its own result the same
\* payload raises refundedAmount by totalRefund a second time.
C8_ApplyArithmetic ==
    [][\A r \in pending \ pending' :
          \A e \in {r.payload.items[1]} : \A i \in Positions(r.items, e.id) :
              /\ items'[i].refundedAmount
                    = r.items[i].refundedAmount + EntryTotal(e)
              /\ items'[i].amount
                    = Max(r.items[i].amount - EntryTotal(e), 0)
              /\ applyEntries(items', r.payload.items)[i].refundedAmount
                    = r.items[i].refundedAmount + 2 * EntryTotal(e)]_vars

C8_Witness ==
    \E i \in 1..Len(items) :
        /\ items[i].amount = 0
        /\ items[i].refundedAmount > items[i].originalAmount
        /\ nCalls = MaxCalls
        /\ pending = {}

\* C9: applyRefund keeps the number and order of the items it read, leaves
\* every item the payload does not reference as it was, changes nothing but
\* amount and refundedAmount of a referenced item, and returns the
\* collection as it was when the payload's id matches no item.
C9_ApplyFrame ==
    [][\A r \in pending \ pending' :
          LET ids == {r.payload.items[k].id : k \in 1..Len(r.payload.items)}
          IN /\ Len(items') = Len(r.items)
             /\ \A i \in 1..Len(r.items) :
                   /\ r.items[i].id \notin ids => items'[i] = r.items[i]
                   /\ items'[i].id = r.items[i].id
                   /\ items'[i].originalAmount = r.items[i].originalAmount
                   /\ items'[i].fees = r.items[i].fees
                   /\ DOMAIN items'[i] = DOMAIN r.items[i]
             /\ (\A i \in 1..Len(r.items) : r.items[i].id \notin ids)
                   => items' = r.items]_vars

C9_Witness ==
    /\ approvedFees # [i \in 1..NumItems |-> [t \in FeeTypes |-> 0]]
    /\ \E r \in pending : r.payload.items[1].id = UnknownId /\ r.items # fetchOrderItemsMock

\* C10: no two refund-service calls of one dialog instance are in flight at
\* the same time.
C10_OneCallInFlightPerDialog ==
    \A r1 \in pending : \A r2 \in pending :
        r1.inst = r2.inst => r1 = r2

C10_Witness ==
    /\ modalOpen
    /\ submitting
    /\ \E r \in pending : r.inst = instance /\ r.payload.items[1].amount # refundAmount
    /\ \E r \in pending : r.inst # instance

\* C11: every fee refund entry of every payload submitted to the refund
\* service has an amount between 0 and min(fee.maxRefund, fee.original) of
\* its fee, whatever conforming item the dialog was opened on.
C11_FeeRefundsWithinFeeCap ==
    \A r \in pending :
        \A i \in Positions(r.items, r.payload.items[1].id) :
            \A k \in 1..Len(r.payload.items[1].feeRefunds) :
                LET fr == r.payload.items[1].feeRefunds[k]
                    f == r.items[i].fees[k]
                IN /\ fr.type = f.type
                   /\ 0 <= fr.amount
                   /\ fr.amount <= Min(f.maxRefund, f.original)

\* C12: the base amount of every payload submitted to the refund service is
\* at least 0, also when the dialog was reopened on an item whose
\* refundedAmount exceeds its amount and the pre-filled amount was left as
\* it was.
C12_BaseAmountNonNegative ==
    \A r \in pending : \A k \in 1..Len(r.payload.items) :
        r.payload.items[k].amount >= 0
====
